---- MODULE Spec2Model ----
(***************************************************************************)
(* Exact inference on discrete Bayesian networks by sum-product variable   *)
(* elimination over flattened CPD factors (libpgm: tablecpdfactor.py and   *)
(* tablecpdfactorization.py).                                              *)
(*                                                                         *)
(* Probabilities are held exactly: a CPT entry is an integer multiple of   *)
(* 1/Scale, a product of n CPT entries an integer multiple of 1/Scale^n,   *)
(* and the quotients produced by normalisation are fractions <<n, d>> in   *)
(* lowest terms.  Python lists are sequences; positions, strides and the   *)
(* running offsets j, k keep Python's 0-based values and are shifted by    *)
(* one only where a sequence is read.                                      *)
(***************************************************************************)
EXTENDS Integers, Sequences, FiniteSets, TLC

VARIABLES bn, factorlist, pool, last, ncalls

vars == <<bn, factorlist, pool, last, ncalls>>

(***************************************************************************)
(* Bounds of the model.                                                    *)
(***************************************************************************)
\* number of multiplyfactor / reducefactor calls applied to the pool
MaxOps == 1
\* number of condition / condprobve / specificquery calls on one object
MaxCalls == 2
\* number of (variable, value) pairs of an evidence mapping
MaxEvidence == 1
\* number of variables of a query
MaxQuery == 2

\* unit of the integer probabilities: 0.1 is 1, 1.0 is Scale
Scale == 10

\* Python's None, as the default of reducefactor's value argument
None == "<None>"

(***************************************************************************)
(* Python primitives used by the code.                                     *)
(***************************************************************************)
Range(s) == {s[i] : i \in 1..Len(s)}

\* list.count(x) > 0 / x in list
Contains(s, x) == \E i \in 1..Len(s) : s[i] = x

\* list.index that answers position 0 for a missing element instead of raising
ListIndexFirst(s, x) ==
    IF Contains(s, x)
    THEN (CHOOSE i \in 1..Len(s) : s[i] = x /\ \A h \in 1..(i-1) : s[h] # x) - 1
    ELSE 0

\* list.index(x): the 0-based position of the first occurrence; -1 stands for
\* the ValueError raised when there is none
ListIndex(s, x) ==
    IF Contains(s, x)
    THEN (CHOOSE i \in 1..Len(s) : s[i] = x /\ \A h \in 1..(i-1) : s[h] # x) - 1
    ELSE -1

\* s[i] with Python's index rules: -len <= i < len, negative from the end
InRange(s, i) == (0 - Len(s)) <= i /\ i < Len(s)

PyGet(s, i) == IF i >= 0 THEN s[i + 1] ELSE s[Len(s) + i + 1]

\* list.remove(x) / del list[i] at 0-based position i
DelAt(s, i) == [h \in 1..(Len(s) - 1) |-> IF h <= i THEN s[h] ELSE s[h + 1]]

RECURSIVE prod(_)
prod(l) == IF Len(l) = 0 THEN 1 ELSE l[1] * prod(Tail(l))

\* sum(l), added up in halves (integer addition is associative)
RECURSIVE sum(_)
sum(l) ==
    IF Len(l) = 0 THEN 0
    ELSE IF Len(l) = 1 THEN l[1]
    ELSE sum(SubSeq(l, 1, Len(l) \div 2)) + sum(SubSeq(l, Len(l) \div 2 + 1, Len(l)))

\* l[:n]
Prefix(l, n) == SubSeq(l, 1, n)

RECURSIVE GCD(_, _)
GCD(a, b) == IF b = 0 THEN a ELSE GCD(b, a % b)

\* the quotient n / d (d > 0) as a fraction in lowest terms
Frac(n, d) == LET g == GCD(n, d) IN <<n \div g, d \div g>>

FracAdd(x, y) == Frac(x[1] * y[2] + y[1] * x[2], x[2] * y[2])

RECURSIVE FracSum(_)
FracSum(l) ==
    IF Len(l) = 0 THEN <<0, 1>>
    ELSE IF Len(l) = 1 THEN l[1]
    ELSE FracAdd(FracSum(SubSeq(l, 1, Len(l) \div 2)),
                 FracSum(SubSeq(l, Len(l) \div 2 + 1, Len(l))))

(***************************************************************************)
(* The networks.  "test" is the network of tests/test_inference.py; "alt"  *)
(* is a second network in which C and Q3 have other domains and Q5 has two *)
(* parents; "deg" has a label of probability zero; "bad" has malformed     *)
(* CPTs.  bn.V is the topological order of the vertices.                   *)
(***************************************************************************)
TestVdata ==
    [C  |-> [parents |-> <<>>, vals |-> <<"C1", "C2", "C3">>,
             cprob |-> <<1, 6, 3>>],
     Q1 |-> [parents |-> <<"C">>, vals |-> <<"A1.1", "A1.2", "A1.3">>,
             cprob |-> (<<"C1">> :> <<5, 0, 5>>) @@ (<<"C2">> :> <<0, 5, 5>>)
                       @@ (<<"C3">> :> <<5, 5, 0>>)],
     Q2 |-> [parents |-> <<"C">>, vals |-> <<"A2.1", "A2.2">>,
             cprob |-> (<<"C1">> :> <<9, 1>>) @@ (<<"C2">> :> <<1, 9>>)
                       @@ (<<"C3">> :> <<5, 5>>)],
     Q3 |-> [parents |-> <<"C">>, vals |-> <<"A", "B", "Both">>,
             cprob |-> (<<"C1">> :> <<5, 3, 2>>) @@ (<<"C2">> :> <<9, 1, 0>>)
                       @@ (<<"C3">> :> <<6, 3, 1>>)],
     Q4 |-> [parents |-> <<"Q3">>, vals |-> <<"Yes", "No", "N/A">>,
             cprob |-> (<<"A">> :> <<5, 5, 0>>) @@ (<<"Both">> :> <<5, 5, 0>>)
                       @@ (<<"B">> :> <<0, 0, 10>>)]]

AltVdata ==
    [C  |-> [parents |-> <<>>, vals |-> <<"C1", "C2">>,
             cprob |-> <<3, 7>>],
     Q3 |-> [parents |-> <<"C">>, vals |-> <<"A", "B">>,
             cprob |-> (<<"C1">> :> <<2, 8>>) @@ (<<"C2">> :> <<6, 4>>)],
     Q5 |-> [parents |-> <<"C", "Q3">>, vals |-> <<"Y", "N", "M">>,
             cprob |-> (<<"C1", "A">> :> <<1, 2, 7>>) @@ (<<"C1", "B">> :> <<0, 4, 6>>)
                       @@ (<<"C2", "A">> :> <<3, 3, 4>>) @@ (<<"C2", "B">> :> <<10, 0, 0>>)]]

\* a well-formed network in which the label Z2 has probability zero
DegVdata ==
    [Z |-> [parents |-> <<>>, vals |-> <<"Z1", "Z2">>,
            cprob |-> <<10, 0>>],
     W |-> [parents |-> <<"Z">>, vals |-> <<"W1", "W2">>,
            cprob |-> (<<"Z1">> :> <<5, 5>>) @@ (<<"Z2">> :> <<10, 0>>)]]

\* a network with malformed CPTs: R does not sum to 1 and S has one entry too
\* many (both without parents); X has a row that does not sum to 1 and Y a
\* row with one entry too many (both with the well-formed parent P)
BadVdata ==
    [P |-> [parents |-> <<>>, vals |-> <<"P1", "P2">>,
            cprob |-> <<4, 6>>],
     R |-> [parents |-> <<>>, vals |-> <<"R1", "R2">>,
            cprob |-> <<3, 3>>],
     S |-> [parents |-> <<>>, vals |-> <<"S1", "S2">>,
            cprob |-> <<2, 3, 5>>],
     X |-> [parents |-> <<"P">>, vals |-> <<"X1", "X2">>,
            cprob |-> (<<"P1">> :> <<5, 2>>) @@ (<<"P2">> :> <<5, 5>>)],
     Y |-> [parents |-> <<"P">>, vals |-> <<"Y1", "Y2">>,
            cprob |-> (<<"P1">> :> <<2, 3, 5>>) @@ (<<"P2">> :> <<5, 5>>)]]

\* the networks on which inference is run: their CPTs are well formed
Networks == {"test", "alt", "deg"}

\* the networks from whose vertices a factor may be constructed
AllNetworks == Networks \cup {"bad"}

Vdata(b) ==
    IF b = "test" THEN TestVdata
    ELSE IF b = "alt" THEN AltVdata
    ELSE IF b = "deg" THEN DegVdata
    ELSE BadVdata

V(b) ==
    IF b = "test" THEN <<"C", "Q1", "Q2", "Q3", "Q4">>
    ELSE IF b = "alt" THEN <<"C", "Q3", "Q5">>
    ELSE IF b = "deg" THEN <<"Z", "W">>
    ELSE <<"P", "R", "S", "X", "Y">>

Vertices(b) == Range(V(b))

Domain(b, v) == Vdata(b)[v].vals

(***************************************************************************)
(* TableCPDFactor.__init__                                                 *)
(***************************************************************************)
\* explore(): the conditional vectors of every parent assignment, the parents
\* taken in declared order with the first one outermost
RECURSIVE explore(_, _, _, _, _)
RECURSIVE exploreVals(_, _, _, _, _, _)
explore(b, parents, _dict, key, depth) ==
    IF depth = Len(parents)
    THEN _dict[key]
    ELSE exploreVals(b, parents, _dict, key, depth, 1)

exploreVals(b, parents, _dict, key, depth, p) ==
    LET pvals == Vdata(b)[parents[depth + 1]].vals
    IN  IF p > Len(pvals)
        THEN <<>>
        ELSE explore(b, parents, _dict, Append(key, pvals[p]), depth + 1)
             \o exploreVals(b, parents, _dict, key, depth, p + 1)

\* reversed(l)
Reversed(l) == [i \in 1..Len(l) |-> l[Len(l) + 1 - i]]

\* the strides of a scope: the running product of the cardinalities before it
StrideOf(scope, card) ==
    [v \in Range(scope) |-> prod(Prefix(card, ListIndex(scope, v)))]

\* the constructor; exc is "AssertionError" when a parentless CPT fails the
\* two assertions
TableCPDFactor(vertex, b) ==
    LET node    == Vdata(b)[vertex]
        parents == node.parents
        vals    == IF parents = <<>> THEN node.cprob
                   ELSE explore(b, parents, node.cprob, <<>>, 0)
        scope   == <<vertex>> \o Reversed(parents)
        card    == [i \in 1..Len(scope) |-> Len(Vdata(b)[scope[i]].vals)]
        bad     == /\ parents = <<>>
                   /\ (Len(vals) # Len(node.vals) \/ sum(vals) # Scale)
    IN  [exc |-> IF bad THEN "AssertionError" ELSE "none",
         f   |-> [inputvertex |-> vertex, inputbn |-> b, vals |-> vals,
                  stride |-> StrideOf(scope, card), card |-> card, scope |-> scope]]

\* copy(): a new object built by the constructor, its four fields overwritten
copy(self) ==
    LET made == TableCPDFactor(self.inputvertex, self.inputbn)
    IN  [exc |-> made.exc,
         f   |-> [made.f EXCEPT !.vals = self.vals, !.stride = self.stride,
                                !.scope = self.scope, !.card = self.card]]

(***************************************************************************)
(* TableCPDFactor.multiplyfactor                                           *)
(***************************************************************************)
\* merge the scopes: other's variables that self lacks are appended to
\* self.scope and self.card, which the locals scope and card alias
RECURSIVE MergeScopes(_, _, _, _, _)
MergeScopes(scope, card, oscope, ocard, p) ==
    IF p > Len(oscope) \/ p > Len(ocard)
    THEN [scope |-> scope, card |-> card]
    ELSE IF ListIndex(scope, oscope[p]) >= 0
         THEN MergeScopes(scope, card, oscope, ocard, p + 1)
         ELSE MergeScopes(Append(scope, oscope[p]), Append(card, ocard[p]),
                          oscope, ocard, p + 1)

\* dict.get(key, default)
DictGet(d, key, default) == IF key \in DOMAIN d THEN d[key] ELSE default

\* the wrap taking back t_card strides instead of t_card - 1
WrapOffsetFull(off, t_card, stride, t_scope) ==
    IF t_scope \in DOMAIN stride THEN off - t_card * stride[t_scope] ELSE off

\* the advance by one entry instead of by the variable's stride
StepOffsetUnit(off, stride, t_scope) ==
    IF t_scope \in DOMAIN stride THEN off + 1 ELSE off

\* the offset of a factor when a variable's counter wraps / advances
WrapOffset(off, t_card, stride, t_scope) ==
    IF t_scope \in DOMAIN stride THEN off - (t_card - 1) * stride[t_scope] ELSE off

StepOffset(off, stride, t_scope) ==
    IF t_scope \in DOMAIN stride THEN off + stride[t_scope] ELSE off

\* the inner loop over zip(card, scope): advance the odometer by one
RECURSIVE Odometer(_, _, _, _, _, _)
Odometer(p, scope, card, sstride, ostride, st) ==
    IF p > Len(scope) \/ p > Len(card)
    THEN st
    ELSE LET t_scope == scope[p]
             t_card  == card[p]
             a       == DictGet(st.assignment, t_scope, 0) + 1
         IN  IF a = t_card
             THEN Odometer(p + 1, scope, card, sstride, ostride,
                           [assignment |-> (t_scope :> 0) @@ st.assignment,
                            j |-> WrapOffset(st.j, t_card, sstride, t_scope),
                            k |-> WrapOffset(st.k, t_card, ostride, t_scope)])
             ELSE [assignment |-> (t_scope :> a) @@ st.assignment,
                   j |-> StepOffset(st.j, sstride, t_scope),
                   k |-> StepOffset(st.k, ostride, t_scope)]

\* one pass of the loop over range(prod(card)): append the product of the two
\* current entries, then advance the odometer; an index outside a list raises
\* IndexError, after which nothing more runs
MultiplyStep(svals, ovals, scope, card, strides, acc) ==
    IF acc.exc # "none"
    THEN acc
    ELSE IF ~InRange(svals, acc.st.j) \/ ~InRange(ovals, acc.st.k)
         THEN [acc EXCEPT !.exc = "IndexError"]
         ELSE [exc  |-> "none",
               vals |-> Append(acc.vals,
                               PyGet(svals, acc.st.j) * PyGet(ovals, acc.st.k)),
               st   |-> Odometer(1, scope, card, strides[1], strides[2], acc.st)]

\* n passes of the loop, one after the other (split in halves so that the
\* evaluation nests only logarithmically deep)
RECURSIVE MultiplyLoop(_, _, _, _, _, _, _)
MultiplyLoop(n, svals, ovals, scope, card, strides, acc) ==
    IF acc.exc # "none" \/ n = 0 THEN acc
    ELSE IF n = 1 THEN MultiplyStep(svals, ovals, scope, card, strides, acc)
    ELSE MultiplyLoop(n - (n \div 2), svals, ovals, scope, card, strides,
                      MultiplyLoop(n \div 2, svals, ovals, scope, card, strides, acc))

\* "add strides": the loop over zip(card, scope)
RECURSIVE AddStrides(_, _, _, _, _)
AddStrides(scope, card, p, t_stride, stride) ==
    IF p > Len(scope) \/ p > Len(card)
    THEN stride
    ELSE AddStrides(scope, card, p + 1, t_stride * card[p],
                    (scope[p] :> t_stride) @@ stride)

\* self.multiplyfactor(other): the receiver afterwards.  When the loop raises,
\* scope and card have already grown in place while vals and stride are old.
multiplyfactor(self, other) ==
    LET m    == MergeScopes(self.scope, self.card, other.scope, other.card, 1)
        loop == MultiplyLoop(prod(m.card), self.vals, other.vals, m.scope, m.card,
                             <<self.stride, other.stride>>,
                             [exc |-> "none", vals |-> <<>>,
                              st |-> [assignment |-> <<>>, j |-> 0, k |-> 0]])
    IN  IF loop.exc # "none"
        THEN [exc |-> loop.exc,
              f   |-> [self EXCEPT !.scope = m.scope, !.card = m.card]]
        ELSE [exc |-> "none",
              f   |-> [self EXCEPT !.vals = loop.vals, !.scope = m.scope,
                                   !.card = m.card,
                                   !.stride = AddStrides(m.scope, m.card, 1, 1, <<>>)]]

(***************************************************************************)
(* TableCPDFactor.reducefactor (alias sumout)                              *)
(***************************************************************************)
\* the position of value in the declared domain of vertex, looked up in the
\* factor's own network; -1 when the value is not a label of the domain
ValueIndex(self, vertex, value) ==
    ListIndex(Vdata(self.inputbn)[vertex].vals, value)

\* the entries summed for one output entry when no value is given
RECURSIVE SumEntries(_, _, _, _, _)
SumEntries(vals, k, vstride, vcard, h) ==
    IF h = vcard THEN 0
    ELSE PyGet(vals, k + vstride * h) + SumEntries(vals, k, vstride, vcard, h + 1)

\* the selection ignoring the label: the entry of the first label is kept
SelectEntryFirst(vals, k, vstride, index) == PyGet(vals, k)

\* the single entry kept for one output entry when a value is given
SelectEntry(vals, k, vstride, index) == PyGet(vals, k + vstride * index)

\* k advanced without skipping the block of the other values of vertex
NextKNoSkip(k, lcardproduct, vcard) == k + 1

\* k after one output entry: skip the block of the other values of vertex
NextK(k, lcardproduct, vcard) ==
    IF (k + 1) % lcardproduct = 0
    THEN (k + 1) + lcardproduct * (vcard - 1)
    ELSE k + 1

\* one pass of the loop over enumerate(result): the entry for the current k,
\* then k moves on.  A value outside the declared domain raises ValueError, an
\* index outside vals IndexError, after which nothing more runs.
ReduceStep(self, vertex, value, vstride, vcard, acc) ==
    LET lcardproduct == prod(Prefix(self.card, ListIndex(self.scope, vertex)))
        k == acc.k
    IN  IF acc.exc # "none"
        THEN acc
        ELSE IF value = None
        THEN IF \E h \in 0..(vcard - 1) : ~InRange(self.vals, k + vstride * h)
             THEN [acc EXCEPT !.exc = "IndexError"]
             ELSE [exc  |-> "none",
                   k    |-> NextK(k, lcardproduct, vcard),
                   vals |-> Append(acc.vals,
                                   SumEntries(self.vals, k, vstride, vcard, 0))]
        ELSE IF vertex \notin DOMAIN Vdata(self.inputbn)
        THEN [acc EXCEPT !.exc = "KeyError"]
        ELSE IF ValueIndex(self, vertex, value) < 0
        THEN [acc EXCEPT !.exc = "ValueError"]
        ELSE IF ~InRange(self.vals, k + vstride * ValueIndex(self, vertex, value))
        THEN [acc EXCEPT !.exc = "IndexError"]
        ELSE [exc  |-> "none",
              k    |-> NextK(k, lcardproduct, vcard),
              vals |-> Append(acc.vals,
                              SelectEntry(self.vals, k, vstride,
                                          ValueIndex(self, vertex, value)))]

\* n passes of the loop, one after the other (split in halves as above)
RECURSIVE ReduceLoop(_, _, _, _, _, _, _)
ReduceLoop(n, self, vertex, value, vstride, vcard, acc) ==
    IF acc.exc # "none" \/ n = 0 THEN acc
    ELSE IF n = 1 THEN ReduceStep(self, vertex, value, vstride, vcard, acc)
    ELSE ReduceLoop(n - (n \div 2), self, vertex, value, vstride, vcard,
                    ReduceLoop(n \div 2, self, vertex, value, vstride, vcard, acc))

\* the strides of the variables at the positions vscope .. len(stride)-2 of
\* the shrunk scope are divided by vcard, then the vertex's own stride goes
ShrinkStride(stride, scope, vscope, vcard, vertex) ==
    [v \in (DOMAIN stride) \ {vertex} |->
        IF \E i \in vscope..(Cardinality(DOMAIN stride) - 2) : scope[i + 1] = v
        THEN stride[v] \div vcard
        ELSE stride[v]]

\* self.reducefactor(vertex, value): the factor afterwards.  Every raise
\* happens before the first assignment to self, so a failing call leaves the
\* factor as it was.
reducefactor(self, vertex, value) ==
    LET vscope == ListIndex(self.scope, vertex)
    IN  IF vscope < 0
        THEN [exc |-> "ValueError", f |-> self]
        ELSE IF vertex \notin DOMAIN self.stride
        THEN [exc |-> "KeyError", f |-> self]
        ELSE LET vstride == self.stride[vertex]
                 vcard   == self.card[vscope + 1]
                 loop    == ReduceLoop(Len(self.vals) \div vcard, self, vertex, value,
                                       vstride, vcard,
                                       [exc |-> "none", k |-> 0, vals |-> <<>>])
                 scope   == DelAt(self.scope, vscope)
             IN  IF loop.exc # "none"
                 THEN [exc |-> loop.exc, f |-> self]
                 ELSE [exc |-> "none",
                       f   |-> [self EXCEPT
                                  !.vals = loop.vals,
                                  !.scope = scope,
                                  !.card = DelAt(self.card, vscope),
                                  !.stride = ShrinkStride(self.stride, scope, vscope,
                                                          vcard, vertex)]]

(***************************************************************************)
(* TableCPDFactorization.  self.factorlist is a list of factor objects;    *)
(* the model keeps the objects in the list itself, and a local list that   *)
(* shares them is a list of positions of self.factorlist.                  *)
(***************************************************************************)
\* __init__ / reset: one factor per vertex of bn.V, in that order
InitialFactorlist(b) == [p \in 1..Len(V(b)) |-> TableCPDFactor(V(b)[p], b).f]

\* the positions of the factors whose scope mentions vertex (mentions =
\* TRUE) or does not (mentions = FALSE), in order
RECURSIVE Positions(_, _, _, _)
Positions(fl, vertex, mentions, p) ==
    IF p > Len(fl) THEN <<>>
    ELSE (IF Contains(fl[p].scope, vertex) = mentions THEN <<p>> ELSE <<>>)
         \o Positions(fl, vertex, mentions, p + 1)

\* first.multiplyfactor(other) for every other factor at the positions ps
RECURSIVE MultiplyAll(_, _, _, _)
MultiplyAll(r, fl, ps, p) ==
    IF r.exc # "none" \/ p > Len(ps) THEN r
    ELSE MultiplyAll(multiplyfactor(r.f, fl[ps[p]]), fl, ps, p + 1)

\* sumproducteliminatevar(vertex): the factors that mention vertex are
\* multiplied into the first of them, vertex is summed out of the product,
\* and the product takes their place; no factor mentions vertex: no change
sumproducteliminatevar(fl, vertex) ==
    LET mentioning == Positions(fl, vertex, TRUE, 1)
        rest       == Positions(fl, vertex, FALSE, 1)
        kept       == [p \in 1..Len(rest) |-> fl[rest[p]]]
        Replace(summed) ==
            IF summed.exc # "none"
            THEN [exc |-> summed.exc, fl |-> [fl EXCEPT ![mentioning[1]] = summed.f]]
            ELSE [exc |-> "none", fl |-> Append(kept, summed.f)]
        SumOut(product) ==
            IF product.exc # "none" THEN Replace(product)
            ELSE Replace(reducefactor(product.f, vertex, None))
    IN  IF mentioning = <<>> THEN [exc |-> "none", fl |-> fl]
        ELSE SumOut(MultiplyAll([exc |-> "none", f |-> fl[mentioning[1]]],
                                fl, Tail(mentioning), 1))

\* the loop of sumproductve over the vertices to eliminate
RECURSIVE EliminateAll(_, _, _)
EliminateAll(r, vertices, p) ==
    IF r.exc # "none" \/ p > Len(vertices) THEN r
    ELSE EliminateAll(sumproducteliminatevar(r.fl, vertices[p]), vertices, p + 1)

\* sumproductve(vertices): eliminate one by one, then multiply a copy of the
\* first remaining factor by the others; factorlist[0] of an empty list
\* raises IndexError
sumproductve(fl, vertices) ==
    LET Result(e, result) ==
            [exc |-> result.exc, fl |-> e.fl, result |-> result.f]
        Multiply(e) ==
            IF e.exc # "none" THEN [exc |-> e.exc, fl |-> e.fl, result |-> <<>>]
            ELSE IF Len(e.fl) = 0
            THEN [exc |-> "IndexError", fl |-> e.fl, result |-> <<>>]
            ELSE Result(e, MultiplyAll(copy(e.fl[1]), e.fl,
                                       [p \in 1..(Len(e.fl) - 1) |-> p + 1], 1))
    IN  Multiply(EliminateAll([exc |-> "none", fl |-> fl], vertices, 1))

\* factor.reducefactor(vertex, value) on the objects at the positions ps, in
\* place and in order; the first raise ends the comprehension
RECURSIVE ReduceAll(_, _, _, _, _)
ReduceAll(r, ps, vertex, value, p) ==
    LET Put(red) == [exc |-> red.exc, fl |-> [r.fl EXCEPT ![ps[p]] = red.f]]
    IN  IF r.exc # "none" \/ p > Len(ps) THEN r
        ELSE ReduceAll(Put(reducefactor(r.fl[ps[p]], vertex, value)),
                       ps, vertex, value, p + 1)

\* the loop of condition over evidence.items().  own is self.factorlist (the
\* objects), local the positions of own that the local list still holds.
\* For one item: every listed factor with vertex in its scope is reduced in
\* place and replaced in the local list by what reducefactor returned, which
\* is None (it has no return statement); then the list is filtered on
\* factor.scope, which raises AttributeError on None.
RECURSIVE ConditionLoop(_, _, _)
ConditionLoop(r, evidence, p) ==
    LET vertex == evidence[p][1]
        value  == evidence[p][2]
        hit    == SelectSeq(r.local, LAMBDA q : Contains(r.own[q].scope, vertex))
        Filter(reduced) ==
            IF reduced.exc # "none"
            THEN [exc |-> reduced.exc, own |-> reduced.fl, local |-> r.local]
            ELSE IF hit # <<>>
            THEN [exc |-> "AttributeError", own |-> reduced.fl, local |-> r.local]
            ELSE [exc   |-> "none",
                  own   |-> reduced.fl,
                  local |-> SelectSeq(r.local, LAMBDA q : reduced.fl[q].scope # <<>>)]
    IN  IF r.exc # "none" \/ p > Len(evidence) THEN r
        ELSE ConditionLoop(
                 Filter(ReduceAll([exc |-> "none", fl |-> r.own], hit, vertex, value, 1)),
                 evidence, p + 1)

\* evidence=None, the default of specificquery, as an items sequence that no
\* dict has
NoEvidence == <<<<None, None>>>>

\* condition(evidence, in_place, reset_before): self.factorlist afterwards
\* (own) and the list returned (ret).  evidence.items() raises AttributeError
\* when evidence is None.
condition(fl, b, evidence, in_place, reset_before) ==
    LET Start(start) ==
            [exc |-> "none", own |-> start, local |-> [q \in 1..Len(start) |-> q]]
        Listed(r) == [q \in 1..Len(r.local) |-> r.own[r.local[q]]]
        Return(r) ==
            IF r.exc # "none" THEN [exc |-> r.exc, own |-> r.own, ret |-> <<>>]
            ELSE [exc |-> "none", own |-> IF in_place THEN Listed(r) ELSE r.own,
                  ret |-> Listed(r)]
        Items(start) ==
            IF evidence = NoEvidence
            THEN [exc |-> "AttributeError", own |-> start, ret |-> <<>>]
            ELSE Return(ConditionLoop(Start(start), evidence, 1))
    IN  Items(IF reset_before THEN InitialFactorlist(b) ELSE fl)

\* the variables of an evidence mapping
Keys(items) == {items[p][1] : p \in 1..Len(items)}

\* norm = max(factor.vals) in place of the sum
NormMax(vals) ==
    IF Len(vals) = 0 THEN 0
    ELSE CHOOSE m \in Range(vals) : \A x \in Range(vals) : m >= x

\* norm = sum(factor.vals)
Norm(vals) == sum(vals)

\* the division answering NaN entries for a zero norm instead of raising
DivideAllNaN(vals, norm) ==
    [exc  |-> "none",
     vals |-> [x \in 1..Len(vals) |-> IF norm = 0 THEN <<0, 0>> ELSE Frac(vals[x], norm)]]

\* for x, val in enumerate(factor.vals): factor.vals[x] /= norm.  The first
\* division by a zero norm raises ZeroDivisionError.
DivideAll(vals, norm) ==
    IF Len(vals) > 0 /\ norm = 0
    THEN [exc |-> "ZeroDivisionError", vals |-> vals]
    ELSE [exc |-> "none", vals |-> [x \in 1..Len(vals) |-> Frac(vals[x], norm)]]

\* condprobve(query, evidence): self.factorlist afterwards (own) and the
\* normalised factor returned (ret), its values exact fractions.
condprobve(fl, b, query, evidence) ==
    LET eliminate == SelectSeq(V(b), LAMBDA v : v \notin query /\ v \notin Keys(evidence))
        Return(ve, divided) ==
            IF divided.exc # "none"
            THEN [exc |-> divided.exc, own |-> ve.fl, ret |-> <<>>]
            ELSE [exc |-> "none", own |-> ve.fl,
                  ret |-> [ve.result EXCEPT !.vals = divided.vals]]
        Normalise(ve) ==
            IF ve.exc # "none" THEN [exc |-> ve.exc, own |-> ve.fl, ret |-> <<>>]
            ELSE Return(ve, DivideAll(ve.result.vals, Norm(ve.result.vals)))
        Eliminate(c) ==
            IF c.exc # "none" THEN [exc |-> c.exc, own |-> c.own, ret |-> <<>>]
            ELSE Normalise(sumproductve(c.own, eliminate))
    IN  Eliminate(condition(fl, b, evidence, TRUE, FALSE))

\* the flat index without the stride: the label indices simply added up
NewIndexNoStride(index, rindex, stride) == index + rindex

\* newindex = index + rindices[var][x] * condprob.stride[var]
NewIndex(index, rindex, stride) == index + rindex * stride

\* the first key of visited (in the order of the query) whose flag is False
NextVar(keys, visited) ==
    keys[CHOOSE p \in 1..Len(keys) :
            /\ ~visited[keys[p]]
            /\ \A q \in 1..(p - 1) : visited[keys[q]]]

\* findentry(var, index): the flat indices appended to findices, in order.
\* visited is the dict as the call finds it; the flag of var is set for the
\* duration of the call.
RECURSIVE findentry(_, _, _, _, _, _)
RECURSIVE findentryLoop(_, _, _, _, _, _, _)
findentry(var, index, visited, keys, rindices, stride) ==
    findentryLoop(var, index, [visited EXCEPT ![var] = TRUE], keys, rindices, stride, 1)

findentryLoop(var, index, visited, keys, rindices, stride, x) ==
    IF x > Len(rindices[var]) THEN <<>>
    ELSE LET newindex == NewIndex(index, rindices[var][x], stride[var])
         IN  (IF \E k \in Range(keys) : ~visited[k]
              THEN findentry(NextVar(keys, visited), newindex, visited, keys,
                             rindices, stride)
              ELSE <<newindex>>)
             \o findentryLoop(var, index, visited, keys, rindices, stride, x + 1)

\* specificquery(query, evidence); query is the dict as the sequence of its
\* items <<variable, accepted labels>>.  ret is the probability returned.
specificquery(fl, b, query, evidence) ==
    LET keys     == [p \in 1..Len(query) |-> query[p][1]]
        rindices == [var \in Range(keys) |->
                       LET alternatives == query[ListIndex(keys, var) + 1][2]
                       IN  [x \in 1..Len(alternatives) |->
                              ListIndex(Domain(b, var), alternatives[x])]]
        visited  == [var \in Range(keys) |-> FALSE]
        Sum(cp, findices) ==
            IF \E x \in 1..Len(findices) : ~InRange(cp.ret.vals, findices[x])
            THEN [exc |-> "IndexError", own |-> cp.own, ret |-> <<>>]
            ELSE [exc |-> "none", own |-> cp.own,
                  ret |-> FracSum([x \in 1..Len(findices) |->
                                     PyGet(cp.ret.vals, findices[x])])]
        Find(cp) ==
            IF cp.exc # "none" THEN [exc |-> cp.exc, own |-> cp.own, ret |-> <<>>]
            ELSE IF \E var \in Range(keys) : var \notin DOMAIN Vdata(b)
            THEN [exc |-> "KeyError", own |-> cp.own, ret |-> <<>>]
            ELSE IF \E var \in Range(keys) : \E x \in 1..Len(rindices[var]) :
                        rindices[var][x] < 0
            THEN [exc |-> "ValueError", own |-> cp.own, ret |-> <<>>]
            ELSE IF Len(keys) = 0
            THEN [exc |-> "IndexError", own |-> cp.own, ret |-> <<>>]
            ELSE IF \E var \in Range(keys) : var \notin DOMAIN cp.ret.stride
            THEN [exc |-> "KeyError", own |-> cp.own, ret |-> <<>>]
            ELSE Sum(cp, findentry(keys[1], 0, visited, keys, rindices, cp.ret.stride))
    IN  Find(condprobve(fl, b, Range(keys), evidence))

(***************************************************************************)
(* Reference semantics of a factor: the function it denotes on the full    *)
(* assignments of its scope, read through the mixed-radix encoding of      *)
(* scope and card (first scope entry least significant).                   *)
(***************************************************************************)
NoDuplicates(s) == \A p, q \in 1..Len(s) : s[p] = s[q] => p = q

CardOf(F, v) == F.card[ListIndex(F.scope, v) + 1]

\* the full assignments of a scope: variable -> 0-based value index
Assignments(F) ==
    {a \in [Range(F.scope) -> 0..2] : \A v \in Range(F.scope) : a[v] < CardOf(F, v)}

RECURSIVE MixedRadix(_, _, _, _)
MixedRadix(scope, card, a, p) ==
    IF p > Len(scope) THEN 0
    ELSE a[scope[p]] * prod(Prefix(card, p - 1)) + MixedRadix(scope, card, a, p + 1)

ValueAt(F, a) == F.vals[MixedRadix(F.scope, F.card, a, 1) + 1]

Restrict(a, S) == [v \in S |-> a[v]]

Content(F) == [a \in Assignments(F) |-> ValueAt(F, a)]

\* a factor whose four fields fit together
Consistent(F) ==
    /\ NoDuplicates(F.scope)
    /\ Len(F.card) = Len(F.scope)
    /\ DOMAIN F.stride = Range(F.scope)
    /\ Len(F.vals) = prod(F.card)
    /\ \A p \in 1..Len(F.scope) : F.stride[F.scope[p]] = prod(Prefix(F.card, p - 1))

\* a factor over variables of its own network, with their declared domains
OfItsNetwork(F) ==
    \A v \in Range(F.scope) :
        /\ v \in Vertices(F.inputbn)
        /\ CardOf(F, v) = Len(Domain(F.inputbn, v))

\* the variables two factors share have the same cardinality in both
Compatible(A, B) ==
    \A v \in Range(A.scope) \cap Range(B.scope) : CardOf(A, v) = CardOf(B, v)

(***************************************************************************)
(* The factor algebra: a pool of factor objects built from vertices, to    *)
(* which multiplyfactor and reducefactor are applied in place.             *)
(***************************************************************************)
AllVars == UNION {Vertices(b) : b \in Networks}

Labels(v) == UNION {Range(Domain(b, v)) : b \in {n \in Networks : v \in Vertices(n)}}

VertexFactors ==
    UNION {{TableCPDFactor(v, b).f : v \in Vertices(b)} : b \in Networks}

\* the two factor objects of the pool
Objects == {"A", "B"}

InitAlgebra ==
    /\ bn = "none"
    /\ factorlist = <<>>
    /\ pool \in [Objects -> VertexFactors]
    /\ last = [op |-> "idle"]
    /\ ncalls = 0

\* pool[i].multiplyfactor(pool[j]) on two distinct objects
MultiplyFactor(i, j) ==
    /\ ncalls < MaxOps
    /\ i # j
    /\ LET r == multiplyfactor(pool[i], pool[j])
       IN  /\ pool' = [pool EXCEPT ![i] = r.f]
           /\ last' = [op |-> "multiplyfactor", i |-> i, j |-> j, exc |-> r.exc,
                       pre |-> pool]
    /\ ncalls' = ncalls + 1
    /\ UNCHANGED <<bn, factorlist>>

\* pool[i].reducefactor(vertex, value); value = None is the sum-out
ReduceFactor(i, vertex, value) ==
    /\ ncalls < MaxOps
    /\ LET r == reducefactor(pool[i], vertex, value)
       IN  /\ pool' = [pool EXCEPT ![i] = r.f]
           /\ last' = [op |-> "reducefactor", i |-> i, vertex |-> vertex,
                       value |-> value, exc |-> r.exc, pre |-> pool]
    /\ ncalls' = ncalls + 1
    /\ UNCHANGED <<bn, factorlist>>

NextAlgebra ==
    \/ \E i, j \in Objects : MultiplyFactor(i, j)
    \/ \E i \in Objects, vertex \in AllVars :
          \E value \in {None} \cup Labels(vertex) : ReduceFactor(i, vertex, value)

SpecAlgebra == InitAlgebra /\ [][NextAlgebra]_vars

\* pool[i] = TableCPDFactor(vertex, b): the name is bound to the new factor
\* unless the constructor raises
Construct(i, vertex, b) ==
    /\ ncalls < MaxOps
    /\ LET Built(r) ==
               /\ pool' = IF r.exc = "none" THEN [pool EXCEPT ![i] = r.f] ELSE pool
               /\ last' = [op |-> "TableCPDFactor", i |-> i, vertex |-> vertex,
                           bn |-> b, exc |-> r.exc, pre |-> pool]
       IN  Built(TableCPDFactor(vertex, b))
    /\ ncalls' = ncalls + 1
    /\ UNCHANGED <<bn, factorlist>>

\* the factor algebra with construction from any network, malformed ones
\* included
NextBuild ==
    \/ NextAlgebra
    \/ \E i \in Objects, b \in AllNetworks : \E vertex \in Vertices(b) :
          Construct(i, vertex, b)

SpecBuild == InitAlgebra /\ [][NextBuild]_vars

(***************************************************************************)
(* The factorization object: one TableCPDFactorization per behaviour, on   *)
(* which condition, condprobve and specificquery are called in turn.       *)
(***************************************************************************)
\* the sequences of at most n elements of S
RECURSIVE SeqsUpTo(_, _)
SeqsUpTo(S, n) ==
    IF n = 0 THEN {<<>>}
    ELSE LET shorter == SeqsUpTo(S, n - 1)
         IN  shorter \cup {Append(q, x) : q \in shorter, x \in S}

Distinct(q) == \A i, j \in 1..Len(q) : q[i] = q[j] => i = j

\* the variables that are observed: the leaf Q4 of the repository's test and
\* its parent in the test network, every variable in the other one
Observed(b) == IF b = "test" THEN {"Q3", "Q4"} ELSE Vertices(b)

\* evidence mappings: the items <<variable, label of its domain>> of a dict
\* with at most MaxEvidence keys, in insertion order
Evidences(b) ==
    {e \in SeqsUpTo(UNION {{<<v, x>> : x \in Range(Domain(b, v))} : v \in Observed(b)},
                    MaxEvidence) :
        Distinct([p \in 1..Len(e) |-> e[p][1]])}

\* query sets of condprobve: at most MaxQuery variables
Queries(b) == {q \in SUBSET Vertices(b) : Cardinality(q) <= MaxQuery}

\* the accepted labels of one variable in a specificquery: the last label
\* alone, the first two labels, or the whole domain, in domain order
Accepted(b, v) ==
    {<<Domain(b, v)[Len(Domain(b, v))]>>, Prefix(Domain(b, v), 2), Domain(b, v)}

\* query dicts of specificquery: at most MaxQuery variables, in any order
EventQueries(b) ==
    UNION {{[p \in 1..Len(ks) |-> <<ks[p], acc[p]>>] :
               acc \in {a \in [1..Len(ks) -> UNION {Accepted(b, v) : v \in Vertices(b)}] :
                           \A p \in 1..Len(ks) : a[p] \in Accepted(b, ks[p])}} :
           ks \in {k \in SeqsUpTo(Vertices(b), MaxQuery) : Distinct(k) /\ k # <<>>}}

\* no call is under way and no returned value is held by the caller
Idle == last.op = "idle"

Init ==
    /\ bn \in Networks
    /\ factorlist = InitialFactorlist(bn)
    /\ pool = <<>>
    /\ last = [op |-> "idle", completed |-> TRUE]
    /\ ncalls = 0

Condition ==
    /\ Idle
    /\ ncalls < MaxCalls
    /\ \E evidence \in Evidences(bn), in_place, reset_before \in BOOLEAN :
          LET Returned(r) ==
                  /\ factorlist' = r.own
                  /\ last' = [op |-> "condition", evidence |-> evidence,
                          in_place |-> in_place, reset_before |-> reset_before,
                              exc |-> r.exc, ret |-> r.ret, pre |-> factorlist,
                              completed |-> last.completed]
          IN  Returned(condition(factorlist, bn, evidence, in_place, reset_before))
    /\ ncalls' = ncalls + 1
    /\ UNCHANGED <<bn, pool>>

Condprobve ==
    /\ Idle
    /\ ncalls < MaxCalls
    /\ \E query \in Queries(bn), evidence \in Evidences(bn) :
          LET Returned(r) ==
                  /\ factorlist' = r.own
                  /\ last' = [op |-> "condprobve", query |-> query, evidence |-> evidence,
                              exc |-> r.exc, ret |-> r.ret, pre |-> factorlist,
                              completed |-> last.completed]
          IN  Returned(condprobve(factorlist, bn, query, evidence))
    /\ ncalls' = ncalls + 1
    /\ UNCHANGED <<bn, pool>>

Specificquery ==
    /\ Idle
    /\ ncalls < MaxCalls
    /\ \E query \in EventQueries(bn), evidence \in Evidences(bn) \cup {NoEvidence} :
          LET Returned(r) ==
                  /\ factorlist' = r.own
                  /\ last' = [op |-> "specificquery", query |-> query, evidence |-> evidence,
                              exc |-> r.exc, ret |-> r.ret, pre |-> factorlist,
                              completed |-> last.completed]
          IN  Returned(specificquery(factorlist, bn, query, evidence))
    /\ ncalls' = ncalls + 1
    /\ UNCHANGED <<bn, pool>>

\* the caller is done with the value (or the exception) of the last call;
\* completed records that every call so far was a condprobve or specificquery
\* that returned
Discard ==
    /\ ~Idle
    /\ last' = [op |-> "idle",
                completed |-> /\ last.completed
                              /\ last.exc = "none"
                              /\ last.op \in {"condprobve", "specificquery"}]
    /\ UNCHANGED <<bn, factorlist, pool, ncalls>>

Next == Condition \/ Condprobve \/ Specificquery \/ Discard

Spec == Init /\ [][Next]_vars

(***************************************************************************)
(* Claims about the factor algebra, checked under SpecAlgebra.             *)
(***************************************************************************)
\* the receiver and the operand before the last multiplyfactor, and after
PreA == last.pre[last.i]
PreB == last.pre[last.j]
PostA == pool[last.i]

\* other's variables missing from self's scope, in other's order
RECURSIVE NewVars(_, _, _)
NewVars(scope, oscope, p) ==
    IF p > Len(oscope) THEN <<>>
    ELSE (IF Contains(scope, oscope[p]) THEN <<>> ELSE <<oscope[p]>>)
         \o NewVars(scope, oscope, p + 1)

MultipliedConsistent ==
    /\ last.op = "multiplyfactor"
    /\ Consistent(PreA) /\ Consistent(PreB) /\ Compatible(PreA, PreB)

\* C3: after A.multiplyfactor(B) on consistent factors that agree on the
\* cardinality of shared variables, the call has completed, A.scope is the old
\* scope followed by B's new variables in B's order, A.card lists their
\* cardinalities, len(A.vals) is the product of the cardinalities, and the
\* entry at the mixed-radix index of every full assignment of the union scope
\* is old A's value times B's value at the restricted assignments.
C3_MultiplyProduct ==
    MultipliedConsistent =>
        /\ last.exc = "none"
        /\ PostA.scope = PreA.scope \o NewVars(PreA.scope, PreB.scope, 1)
        /\ Len(PostA.card) = Len(PostA.scope)
        /\ \A p \in 1..Len(PostA.scope) :
              PostA.card[p] = IF Contains(PreA.scope, PostA.scope[p])
                              THEN CardOf(PreA, PostA.scope[p])
                              ELSE CardOf(PreB, PostA.scope[p])
        /\ Len(PostA.vals) = prod(PostA.card)
        /\ \A a \in Assignments(PostA) :
              ValueAt(PostA, a) = ValueAt(PreA, Restrict(a, Range(PreA.scope)))
                                  * ValueAt(PreB, Restrict(a, Range(PreB.scope)))

\* a product whose operands overlap in part: each has a variable of its own
C3_Witness ==
    /\ MultipliedConsistent
    /\ last.exc = "none"
    /\ Range(PreA.scope) \cap Range(PreB.scope) # {}
    /\ Range(PreA.scope) \ Range(PreB.scope) # {}
    /\ Range(PreB.scope) \ Range(PreA.scope) # {}

\* the factor before and after the last reducefactor
PreF == last.pre[last.i]
PostF == pool[last.i]

ReducedConsistent ==
    /\ last.op = "reducefactor"
    /\ Consistent(PreF)
    /\ Contains(PreF.scope, last.vertex)

\* an assignment of the shrunk scope extended by vertex = x
Extend(a, vertex, x) == (vertex :> x) @@ a

RECURSIVE SumOver(_, _, _, _)
SumOver(F, a, vertex, x) ==
    IF x = CardOf(F, vertex) THEN 0
    ELSE ValueAt(F, Extend(a, vertex, x)) + SumOver(F, a, vertex, x + 1)

\* C5: sum-out.  F.reducefactor(v) without a value, v anywhere in the scope,
\* leaves the old scope without v in the old order, vals of the old length
\* divided by v's cardinality, and at every assignment of the remaining
\* variables the sum over v's values of the old entries.
C5_SumOut ==
    (ReducedConsistent /\ last.value = None) =>
        /\ last.exc = "none"
        /\ PostF.scope = DelAt(PreF.scope, ListIndex(PreF.scope, last.vertex))
        /\ Len(PostF.vals) * CardOf(PreF, last.vertex) = Len(PreF.vals)
        /\ \A a \in Assignments(PostF) :
              ValueAt(PostF, a) = SumOver(PreF, a, last.vertex, 0)

\* v summed out of the middle of a scope of three variables
C5_Witness ==
    /\ ReducedConsistent /\ last.value = None /\ last.exc = "none"
    /\ Len(PreF.scope) = 3
    /\ ListIndex(PreF.scope, last.vertex) = 1
    /\ \E p \in 1..Len(PostF.vals) : PostF.vals[p] \notin Range(PreF.vals)

\* C6: evidence-select.  F.reducefactor(v, x) with x a label of v's domain
\* leaves the old scope without v, and at every assignment of the remaining
\* variables the one old entry at that assignment extended by v = index of x
\* in the declared domain (F a factor over variables of its own network).
C6_EvidenceSelect ==
    (/\ ReducedConsistent
     /\ OfItsNetwork(PreF)
     /\ last.value # None
     /\ Contains(Domain(PreF.inputbn, last.vertex), last.value)) =>
        /\ last.exc = "none"
        /\ PostF.scope = DelAt(PreF.scope, ListIndex(PreF.scope, last.vertex))
        /\ \A a \in Assignments(PostF) :
              ValueAt(PostF, a) =
                 ValueAt(PreF, Extend(a, last.vertex,
                              ListIndex(Domain(PreF.inputbn, last.vertex), last.value)))

\* a label other than the first selected on a variable in the middle
C6_Witness ==
    /\ ReducedConsistent /\ last.value # None /\ last.exc = "none"
    /\ Len(PreF.scope) = 3
    /\ ListIndex(PreF.scope, last.vertex) = 1
    /\ ListIndex(Domain(PreF.inputbn, last.vertex), last.value) = 1

\* the product as a value: receiver and operand are independent copies
Times(X, Y) == multiplyfactor(X, Y).f

\* the vertex factors that can be multiplied onto the last product
Thirds ==
    {T \in VertexFactors : Compatible(PreA, T) /\ Compatible(PreB, T)}

\* C4: multiplication is commutative and associative in content.  For the
\* consistent operands A, B of a completed A.multiplyfactor(B) and every
\* compatible third factor T, A*B and B*A denote the same function on the
\* full assignments of the union scope, and so do (A*B)*T and A*(B*T),
\* whatever their scope orders.
C4_CommutativeAssociative ==
    (MultipliedConsistent /\ last.exc = "none") =>
        /\ Content(PostA) = Content(Times(PreB, PreA))
        /\ \A T \in Thirds :
              Content(Times(PostA, T)) = Content(Times(PreA, Times(PreB, T)))

\* the two orders give different layouts, and some third factor overlaps both
\* operands and brings a variable of its own
C4_Witness ==
    /\ MultipliedConsistent /\ last.exc = "none"
    /\ PostA.vals # Times(PreB, PreA).vals
    /\ PostA.scope # Times(PreB, PreA).scope
    /\ \E T \in Thirds :
          /\ Range(T.scope) \cap Range(PreA.scope) # {}
          /\ Range(T.scope) \cap Range(PreB.scope) # {}
          /\ Range(T.scope) \ Range(PostA.scope) # {}

ReducedAbsent ==
    /\ last.op = "reducefactor"
    /\ ~Contains(PreF.scope, last.vertex)

\* C9 as stated: reducefactor on a factor whose scope lacks the vertex fails
\* with a LookupError-class error (KeyError / IndexError) and never returns
\* an unchanged factor silently.
C9_AbsentRaisesLookupError ==
    ReducedAbsent => last.exc \in {"LookupError", "KeyError", "IndexError"}

\* C9 as amended: reducefactor on a factor whose scope lacks the vertex fails
\* with the ValueError of scope.index(vertex), whether or not a value is given,
\* and leaves the factor as it was; it never returns.
C9_AbsentRaisesValueError ==
    ReducedAbsent => (last.exc = "ValueError" /\ pool = last.pre)

\* both modes of the call have failed on a missing vertex
C9_Witness ==
    /\ ReducedAbsent
    /\ last.exc = "ValueError"
    /\ last.value # None
    /\ Len(PreF.scope) >= 2

\* C10: A.multiplyfactor(B) with a variable of both scopes that has different
\* cardinalities in A and B is rejected with an error and never completes.
C10_MismatchRejected ==
    (/\ last.op = "multiplyfactor"
     /\ Consistent(PreA) /\ Consistent(PreB)
     /\ ~Compatible(PreA, PreB)) => last.exc # "none"

(***************************************************************************)
(* Claims about the factorization, checked under Spec.                     *)
(***************************************************************************)
\* the weight of the partial assignment a in the full joint of the network
\* (the product of all CPT entries), summed over the variables vs[p..]
RECURSIVE Weight(_, _, _, _)
Weight(cpts, vs, a, p) ==
    IF p > Len(vs)
    THEN prod([q \in 1..Len(cpts) |-> ValueAt(cpts[q], a)])
    ELSE sum([x \in 1..Len(Domain(cpts[1].inputbn, vs[p])) |->
                Weight(cpts, vs, a @@ (vs[p] :> (x - 1)), p + 1)])

\* an evidence mapping as a partial assignment: variable -> value index
Observation(b, evidence) ==
    [v \in Keys(evidence) |->
        ListIndex(Domain(b, v),
                  evidence[CHOOSE p \in 1..Len(evidence) : evidence[p][1] = v][2])]

\* the joint weight of a partial assignment, all other variables summed
Mass(b, a) ==
    Weight(InitialFactorlist(b), SelectSeq(V(b), LAMBDA v : v \notin DOMAIN a), a, 1)

\* the last call was condprobve on a newly built factorization, with
\* evidence of non-zero probability on variables that are not queried
FreshCondprobve ==
    /\ last.op = "condprobve"
    /\ last.pre = InitialFactorlist(bn)
    /\ last.query \cap Keys(last.evidence) = {}
    /\ Mass(bn, Observation(bn, last.evidence)) > 0

\* C1: on a network with valid CPTs and evidence of non-zero probability,
\* condprobve(query, evidence) returns a factor whose scope is exactly the
\* query variables and whose entry at every assignment q of them is the exact
\* posterior P(query = q | evidence): the joint restricted to the evidence,
\* summed over the other variables, divided by the total.  On the test
\* network condprobve({C}, {Q4: Yes}) is 7/82, 54/82, 21/82.
C1_ExactPosterior ==
    FreshCondprobve =>
        /\ last.exc = "none"
        /\ NoDuplicates(last.ret.scope)
        /\ Range(last.ret.scope) = last.query
        /\ \A q \in Assignments(last.ret) :
              ValueAt(last.ret, q) =
                  Frac(Mass(bn, Observation(bn, last.evidence) @@ q),
                       Mass(bn, Observation(bn, last.evidence)))
        /\ (/\ bn = "test" /\ last.query = {"C"}
            /\ last.evidence = <<<<"Q4", "Yes">>>>)
              => last.ret.vals = <<Frac(7, 82), Frac(54, 82), Frac(21, 82)>>

\* C2: whenever condprobve(query, evidence) returns a factor, the values of
\* that factor sum to 1, for every network, query set and evidence, an empty
\* query set and empty evidence included.
C2_SumsToOne ==
    (last.op = "condprobve" /\ last.exc = "none") =>
        FracSum(last.ret.vals) = <<1, 1>>

\* condprobve has returned a distribution of several non-trivial entries
\* under non-empty evidence
C2_Witness ==
    /\ last.op = "condprobve"
    /\ last.exc = "none"
    /\ last.evidence # <<>>
    /\ Len(last.ret.vals) >= 3
    /\ \A x \in 1..Len(last.ret.vals) : last.ret.vals[x][1] # 0

\* the value index of variable scope[p] at the flat position i (0-based) of
\* a factor, read through scope and card
DigitOf(F, p, i) == (i \div prod(Prefix(F.card, p - 1))) % F.card[p]

\* the accepted labels of variable v in a query dict, as value indices
AcceptedIndices(b, query, v) ==
    LET alternatives == query[CHOOSE p \in 1..Len(query) : query[p][1] = v][2]
    IN  {ListIndex(Domain(b, v), alternatives[x]) : x \in 1..Len(alternatives)}

\* the entries of the factor R at the combinations of accepted labels, the
\* others replaced by zero
PickedEntries(b, query, R) ==
    [x \in 1..Len(R.vals) |->
        IF \A p \in 1..Len(R.scope) :
              R.scope[p] \in Keys(query) =>
                  DigitOf(R, p, x - 1) \in AcceptedIndices(b, query, R.scope[p])
        THEN R.vals[x] ELSE <<0, 1>>]

\* C7: specificquery(query, evidence) returns the sum of the entries of
\* condprobve(query, evidence) over exactly the Cartesian product of the
\* accepted labels, each combination once.  Hence one variable with one
\* accepted label gives that entry of condprobve's result, and accepting
\* every label of every query variable gives 1.
C7_SumOverProduct ==
    (last.op = "specificquery" /\ last.exc = "none") =>
        LET Holds(R) ==
                /\ last.ret = FracSum(PickedEntries(bn, last.query, R))
                /\ (Len(last.query) = 1 /\ Len(last.query[1][2]) = 1)
                      => last.ret =
                            ValueAt(R, last.query[1][1] :>
                                         ListIndex(Domain(bn, last.query[1][1]),
                                                   last.query[1][2][1]))
                /\ (\A p \in 1..Len(last.query) :
                        last.query[p][2] = Domain(bn, last.query[p][1]))
                      => last.ret = <<1, 1>>
        IN  Holds(condprobve(last.pre, bn, Keys(last.query), last.evidence).ret)

\* specificquery has returned the sum over a product of two accepted labels
\* for each of two three-valued variables
C7_Witness ==
    /\ last.op = "specificquery"
    /\ last.exc = "none"
    /\ Len(last.query) = 2
    /\ \A p \in 1..2 : /\ Len(last.query[p][2]) = 2
                       /\ Len(Domain(bn, last.query[p][1])) = 3
    /\ last.ret[1] # 0
    /\ last.ret # <<1, 1>>

\* factor.reducefactor(vertex, value) for every evidence item whose vertex
\* is in the factor's scope, in the order of the items
RECURSIVE ReducedBy(_, _, _)
ReducedBy(F, evidence, p) ==
    IF p > Len(evidence) THEN F
    ELSE IF Contains(F.scope, evidence[p][1])
    THEN ReducedBy(reducefactor(F, evidence[p][1], evidence[p][2]).f, evidence, p + 1)
    ELSE ReducedBy(F, evidence, p + 1)

\* the list condition is to return from the list fl
Conditioned(fl, evidence) ==
    SelectSeq([p \in 1..Len(fl) |-> ReducedBy(fl[p], evidence, 1)],
              LAMBDA F : F.scope # <<>>)

\* C8: condition(evidence) completes and returns the factor list in which
\* every factor mentioning an evidence variable is replaced by its
\* evidence-selected reduction, every other factor is kept as is, and exactly
\* the factors whose scope became empty are dropped, for any evidence whose
\* variables and values belong to the network.
C8_ConditionReturnsReduced ==
    (last.op = "condition" /\ last.pre = InitialFactorlist(bn)) =>
        /\ last.exc = "none"
        /\ last.ret = Conditioned(last.pre, last.evidence)

(***************************************************************************)
(* Claims about construction, checked under SpecBuild.                     *)
(***************************************************************************)
\* a conditional probability vector of the wrong length or sum
BadVector(vec, node) == Len(vec) # Len(node.vals) \/ sum(vec) # Scale

\* some conditional probability vector of the vertex is malformed
Malformed(b, vertex) ==
    IF Vdata(b)[vertex].parents = <<>>
    THEN BadVector(Vdata(b)[vertex].cprob, Vdata(b)[vertex])
    ELSE \E key \in DOMAIN Vdata(b)[vertex].cprob :
            BadVector(Vdata(b)[vertex].cprob[key], Vdata(b)[vertex])

\* C11: constructing a TableCPDFactor for a vertex whose CPT is malformed
\* (a conditional vector that does not sum to 1, or whose length differs from
\* the vertex's cardinality) fails at construction time, for vertices without
\* parents and for vertices with parents alike; no factor is produced.
C11_MalformedRejected ==
    (last.op = "TableCPDFactor" /\ Malformed(last.bn, last.vertex)) =>
        (last.exc # "none" /\ pool = last.pre)

(***************************************************************************)
(* Further claims about the factorization, checked under Spec.             *)
(***************************************************************************)
\* the factor that elimination produces inside the last condprobve call:
\* exc is "none" when conditioning and elimination both completed
Eliminated ==
    LET eliminate == SelectSeq(V(bn), LAMBDA v : /\ v \notin last.query
                                                 /\ v \notin Keys(last.evidence))
        Product(c) ==
            IF c.exc # "none" THEN [exc |-> c.exc, result |-> <<>>]
            ELSE sumproductve(c.own, eliminate)
    IN  Product(condition(last.pre, bn, last.evidence, TRUE, FALSE))

\* C12: when the factor produced by elimination inside condprobve has values
\* summing to exactly zero, condprobve fails with a divide-by-zero error
\* raised to the caller; it never returns a factor holding NaN or
\* unnormalised values.
C12_ZeroNormRaises ==
    (last.op = "condprobve") =>
        LET Raised(ve) ==
                /\ (ve.exc = "none" /\ Len(ve.result.vals) > 0
                                    /\ sum(ve.result.vals) = 0)
                      => (last.exc = "ZeroDivisionError" /\ last.ret = <<>>)
                /\ (last.exc = "none")
                      => \A x \in 1..Len(last.ret.vals) :
                            /\ last.ret.vals[x][2] > 0
                            /\ last.ret.vals[x] =
                                  Frac(ve.result.vals[x], sum(ve.result.vals))
        IN  Raised(Eliminated)

\* condprobve has failed on a zero norm for a non-empty query
C12_Witness ==
    /\ last.op = "condprobve"
    /\ last.exc = "ZeroDivisionError"
    /\ last.query # {}

\* the stored factor f, its integer values read in some unit 1/Scale^n, has
\* the scope, layout and values of the normalised factor g
SameAsNormalised(f, g) ==
    /\ f.scope = g.scope
    /\ f.card = g.card
    /\ f.stride = g.stride
    /\ Len(f.vals) = Len(g.vals)
    /\ \E n \in 0..Len(V(bn)) :
          \A x \in 1..Len(f.vals) : Frac(f.vals[x], Scale ^ n) = g.vals[x]

\* C13: after condprobve returns, self.factorlist consists of one factor,
\* which is the normalised factor that the call returned.
C13_FactorlistIsResult ==
    (last.op = "condprobve" /\ last.exc = "none") =>
        /\ Len(factorlist) = 1
        /\ SameAsNormalised(factorlist[1], last.ret)

\* C15: condition(evidence, in_place=False) leaves the persistent state
\* unchanged: after the call, whether it returned or failed, self.factorlist
\* holds the same factors as before, each with the same vals, scope, card and
\* stride.
C15_ConditionLeavesState ==
    (last.op = "condition" /\ ~last.in_place /\ ~last.reset_before) =>
        factorlist = last.pre

(***************************************************************************)
(* The structural invariant of factors, checked under SpecBuild.           *)
(***************************************************************************)
\* the last operation worked on well-structured factors of one network
OneNetworkBefore ==
    /\ \A i \in Objects : Consistent(last.pre[i]) /\ OfItsNetwork(last.pre[i])
    /\ \A i, j \in Objects : last.pre[i].inputbn = last.pre[j].inputbn

\* C14: every factor, immediately after its construction from a vertex and
\* after any multiplyfactor or reducefactor call that completes without
\* error on factors of one network, has a scope without duplicates, one
\* cardinality per scope variable, strides keyed by exactly the scope
\* variables, len(vals) equal to the product of card, stride 1 for the first
\* scope variable and stride[scope[i]] = stride[scope[i-1]] * card[i-1] for
\* every later one.
C14_StructuralInvariant ==
    /\ (last.op = "idle") => \A i \in Objects : Consistent(pool[i])
    /\ (last.op = "TableCPDFactor" /\ last.exc = "none") => Consistent(pool[last.i])
    /\ (last.op \in {"multiplyfactor", "reducefactor"} /\ last.exc = "none"
                                                       /\ OneNetworkBefore)
          => \A i \in Objects : Consistent(pool[i]) /\ OfItsNetwork(pool[i])

\* the four fields that make the content of a factor
FactorContent(F) ==
    [scope |-> F.scope, card |-> F.card, stride |-> F.stride, vals |-> F.vals]

\* C16: after any sequence of completed condprobve and specificquery calls
\* on one object, without a reset, a further condprobve(query, evidence)
\* returns the same factor content as the same call on a newly constructed
\* factorization of the same network.
C16_QueriesIndependent ==
    (last.op = "condprobve" /\ last.completed) =>
        LET SameAs(fresh) ==
                (fresh.exc = "none") =>
                    /\ last.exc = "none"
                    /\ FactorContent(last.ret) = FactorContent(fresh.ret)
        IN  SameAs(condprobve(InitialFactorlist(bn), bn, last.query, last.evidence))

\* C17: specificquery(query) with the evidence argument omitted completes
\* and returns the same value as specificquery(query, {}) with explicitly
\* empty evidence, the prior probability of the queried event.
C17_OmittedEvidenceIsEmpty ==
    (last.op = "specificquery" /\ last.evidence = NoEvidence) =>
        LET SameAs(empty) ==
                (empty.exc = "none") =>
                    /\ last.exc = "none"
                    /\ last.ret = empty.ret
        IN  SameAs(specificquery(last.pre, bn, last.query, <<>>))

====
